---- MODULE Spec2Model ----
(***************************************************************************)
(* A model of the seekable stream of src/seekablestream.c: a fixed-size    *)
(* ring buffer whose used window [head, tail) is divided by the seek       *)
(* offset into a stale (already read) and a fresh (not yet read) part.     *)
(*                                                                         *)
(* The context structure is the record ctx.  Each public function of the   *)
(* library is an operator from a context (and the call's arguments) to the *)
(* context it leaves behind, its return code and the bytes it copied out;  *)
(* each action of the state machine is one call of one public function,    *)
(* made by the stream's single owner, who takes the result (Return) before *)
(* the next call.                                                          *)
(*                                                                         *)
(* The capacity is scaled down (the library's smallest capacity is 128):   *)
(* no branch of the code compares the capacity with anything but the       *)
(* indices and sizes, which are scaled with it.  The width of sizes and     *)
(* offsets is scaled down too (TLC's integers are 32-bit, so that the     *)
(* values of a uint32_t do not all fit): sstm_size_t is an unsigned and    *)
(* sstm_offs_t a signed integer of Bits bits, and the arithmetic wraps     *)
(* where that of the code wraps.                                           *)
(*                                                                         *)
(* Specifications: Spec (the four calls on a small stream), SpecRewind     *)
(* (the same with an earlier read remembered), SpecNew (the creation, with *)
(* the real capacities and failing allocations), SpecWide (streams of the  *)
(* largest capacities, the bytes left out), SpecTrip (any calls, then a    *)
(* write and a read of as many bytes) and SpecWrap (the wraparound         *)
(* scenario on a stream made for a requested capacity).                    *)
(***************************************************************************)
EXTENDS Integers, Sequences, FiniteSets, TLC

---------------------------------------------------------------------------
(* Bounds of the model. *)

\* the capacity (conf.cap_size) of the stream that is modelled.
Cap == 3

\* the width in bits of sstm_size_t (unsigned) and of sstm_offs_t (signed),
\* 32 in the code.
Bits == 16

---------------------------------------------------------------------------
(* Program constants. *)

SSTM_CAP_SIZE_MIN == 128
SSTM_CAP_SIZE_DEF == 1024

SSTM_OK == 0
SSTM_ERR_NO_MEM == -2
SSTM_ERR_NO_SPACE == -3
SSTM_ERR_NO_DATA == -4
SSTM_ERR_BAD_OFFS == -5

SSTM_SEEK_SET == 0
SSTM_SEEK_CUR == 1
SSTM_SEEK_END == 2

\* the values a byte takes in the model: 0x00 (what a write without data
\* stores) and 0xFF.
Byte == {0, 255}

\* sstm_size_t is uint32_t, sstm_offs_t is int32_t.
U32Mod == 2 ^ Bits
SSTM_SIZE_MAX == U32Mod - 1
SSTM_OFFS_MAX == 2 ^ (Bits - 1) - 1
SSTM_OFFS_MIN == -(2 ^ (Bits - 1))

\* arithmetic of sstm_size_t: modulo 2^Bits.
U32(x) == x % U32Mod

\* the conversion of a sstm_size_t to sstm_offs_t and back.
ToOffs(x) == IF U32(x) > SSTM_OFFS_MAX THEN U32(x) - U32Mod ELSE U32(x)

---------------------------------------------------------------------------
(* Memory. *)

\* memcpy(ring_buff + at, bytes, Len(bytes)) and memset(ring_buff + at, 0, n):
\* the ring with bytes stored at at, at + 1, ...
memcpy_in(ring, at, bytes) ==
    [i \in DOMAIN ring |->
        IF at <= i /\ i < at + Len(bytes) THEN bytes[i - at + 1] ELSE ring[i]]

\* memcpy(data, ring_buff + at, n): the n bytes of the ring from at on.
memcpy_out(ring, at, n) == [k \in 1..n |-> ring[at + k - 1]]

\* what memset(ptr, 0, n) stores.
Zeros(n) == [k \in 1..n |-> 0]

\* the bytes a write stores: the caller's data, or 0x00 when data is NULL.
SrcBytes(data, size) == IF data.null THEN Zeros(size) ELSE data.bytes

---------------------------------------------------------------------------
(* The library's functions. *)

\* sstm_new, for a stream of capacity cap whose allocated ring holds the
\* (indeterminate) bytes ring.
sstm_new(cap, ring) ==
    [ cap_size   |-> cap,
      used_size  |-> 0,
      stale_size |-> 0,
      fresh_size |-> 0,
      free_size  |-> cap,
      ring_buff  |-> ring,
      head_idx   |-> 0,
      tail_idx   |-> 0,
      seek_offs  |-> 0 ]

\* a slip of new_cap_size: a capacity below the minimum is raised to the
\* minimum.
new_cap_size_floor(conf) ==
    IF conf.null
    THEN SSTM_CAP_SIZE_DEF
    ELSE IF conf.cap_size < SSTM_CAP_SIZE_MIN
         THEN SSTM_CAP_SIZE_MIN
         ELSE conf.cap_size

\* sstm_new: the capacity; conf is [null |-> whether conf is NULL,
\* cap_size |-> conf->cap_size].
new_cap_size(conf) ==
    IF conf.null
    THEN SSTM_CAP_SIZE_DEF
    ELSE IF conf.cap_size < SSTM_CAP_SIZE_MIN
         THEN SSTM_CAP_SIZE_DEF
         ELSE conf.cap_size

\* sstm_new: the size of the ring's allocation, ((cap_size >> 3) + 1) << 3
\* in sstm_size_t.
new_alloc_size(cap_size) == U32(U32((cap_size \div 8) + 1) * 8)

\* sstm_new: what a call leaves behind.  ring_ok and ctx_ok say whether the
\* first and the second malloc succeed.  When the second malloc fails the
\* code tests ring_buff again, not new_ctx, and goes on to store through
\* the null new_ctx: that is undefined, and either ends the program
\* (returned is FALSE) or, where address 0 is mapped, stores there and
\* returns SSTM_OK with the handle set to NULL.
\*   ring_mem, ctx_mem: "none", "live" (allocated and reachable from the
\*   handle), "freed", "leaked" (allocated, no pointer to it left);
\*   handle: "unset", "stream", "null";  fault: new_ctx was used while NULL.
new_outcome(conf, ring_ok, ctx_ok, zero_mapped) ==
    LET cap_size   == new_cap_size(conf)
        alloc_size == new_alloc_size(cap_size)
        base == [ conf |-> conf, done |-> TRUE, cap_size |-> cap_size,
                  alloc_size |-> alloc_size,
                  ring_ok |-> ring_ok, ctx_ok |-> ctx_ok ]
    IN  IF ~ring_ok
        THEN base @@ [ returned |-> TRUE, res |-> SSTM_ERR_NO_MEM,
                       ring_mem |-> "none", ctx_mem |-> "none",
                       handle |-> "unset", fault |-> FALSE ]
        ELSE IF ~ctx_ok
        THEN base @@ [ returned |-> zero_mapped, res |-> SSTM_OK,
                       ring_mem |-> "leaked", ctx_mem |-> "none",
                       handle |-> IF zero_mapped THEN "null" ELSE "unset",
                       fault |-> TRUE ]
        ELSE base @@ [ returned |-> TRUE, res |-> SSTM_OK,
                       ring_mem |-> "live", ctx_mem |-> "live",
                       handle |-> "stream", fault |-> FALSE ]

\* a slip of clean_head: the head is not advanced.
clean_head_stays(c, stale_size) == c.head_idx % (c.cap_size + 1)

\* a slip of clean_head: the head wraps at the capacity, not at the ring's
\* modulus.
clean_head_wraps_at_cap(c, stale_size) ==
    (c.head_idx + stale_size) % c.cap_size

\* sstm_clean: the head index after the stale section is dropped.
clean_head(c, stale_size) == (c.head_idx + stale_size) % (c.cap_size + 1)

\* a slip of clean_cache: the stale size is not reset.
clean_cache_keeps_stale(c, stale_size) ==
    [c EXCEPT !.used_size  = U32(c.used_size - stale_size),
              !.free_size  = U32(c.free_size + stale_size),
              !.seek_offs  = 0]

\* a slip of clean_cache: the seek offset is not reset.
clean_cache_keeps_offs(c, stale_size) ==
    [c EXCEPT !.used_size  = U32(c.used_size - stale_size),
              !.stale_size = 0,
              !.free_size  = U32(c.free_size + stale_size)]

\* sstm_clean: the cache after the stale section is dropped.
clean_cache(c, stale_size) ==
    [c EXCEPT !.used_size  = U32(c.used_size - stale_size),
              !.stale_size = 0,
              !.free_size  = U32(c.free_size + stale_size),
              !.seek_offs  = 0]

sstm_clean(c) ==
    LET stale_size == c.stale_size IN
    IF stale_size = 0
    THEN [ctx |-> c, res |-> SSTM_OK]
    ELSE [ctx |-> [clean_cache(c, stale_size)
                      EXCEPT !.head_idx = clean_head(c, stale_size)],
          res |-> SSTM_OK]

\* a slip of read_start: the copy starts at the head, not at the seek offset.
read_start_at_head(c) == c.head_idx % (c.cap_size + 1)

\* sstm_read: the index the copy starts at.
read_start(c) == (c.head_idx + c.seek_offs) % (c.cap_size + 1)

\* a slip of read_copy: the piece at the start of the ring is not copied.
read_copy_first_piece(c, size) ==
    LET new_head_idx == read_start(c) IN
    IF c.cap_size + 1 - new_head_idx >= size
    THEN memcpy_out(c.ring_buff, new_head_idx, size)
    ELSE memcpy_out(c.ring_buff, new_head_idx,
                    c.cap_size + 1 - new_head_idx)

\* sstm_read: the bytes copied to data, in one piece or in two.
read_copy(c, size) ==
    LET new_head_idx == read_start(c) IN
    IF c.cap_size + 1 - new_head_idx >= size
    THEN memcpy_out(c.ring_buff, new_head_idx, size)
    ELSE LET first_copy_size  == c.cap_size + 1 - new_head_idx
             second_copy_size == size - first_copy_size
         IN  memcpy_out(c.ring_buff, new_head_idx, first_copy_size)
                \o memcpy_out(c.ring_buff, 0, second_copy_size)

\* sstm_read: whether the request is refused.
read_no_data(c, size) == c.fresh_size < size

\* a slip of read_advance: the bytes read are given back to the writer at
\* once.
read_advance_frees(c, size) ==
    [c EXCEPT !.seek_offs  = U32(c.seek_offs + size),
              !.stale_size = U32(c.stale_size + size),
              !.fresh_size = U32(c.fresh_size - size),
              !.free_size  = U32(c.free_size + size)]

\* a slip of read_advance: the fresh size is not reduced.
read_advance_keeps_fresh(c, size) ==
    [c EXCEPT !.seek_offs  = U32(c.seek_offs + size),
              !.stale_size = U32(c.stale_size + size)]

\* sstm_read: the context after the copy, before the optional cleanup.
read_advance(c, size) ==
    [c EXCEPT !.seek_offs  = U32(c.seek_offs + size),
              !.stale_size = U32(c.stale_size + size),
              !.fresh_size = U32(c.fresh_size - size)]

\* a slip of sstm_read: the cleanup is done before the read is accounted.
sstm_read_cleans_first(c, dest_null, size, cleanup) ==
    IF size = 0
    THEN [ctx |-> c, res |-> SSTM_OK, out |-> <<>>]
    ELSE IF read_no_data(c, size)
    THEN [ctx |-> c, res |-> SSTM_ERR_NO_DATA, out |-> <<>>]
    ELSE LET out == IF dest_null THEN <<>> ELSE read_copy(c, size)
             cln == IF cleanup THEN sstm_clean(c).ctx ELSE c
         IN  [ctx |-> read_advance(cln, size),
              res |-> SSTM_OK,
              out |-> out]

\* sstm_read; dest_null says that data is NULL.
sstm_read(c, dest_null, size, cleanup) ==
    IF size = 0
    THEN [ctx |-> c, res |-> SSTM_OK, out |-> <<>>]
    ELSE IF read_no_data(c, size)
    THEN [ctx |-> c, res |-> SSTM_ERR_NO_DATA, out |-> <<>>]
    ELSE LET out == IF dest_null THEN <<>> ELSE read_copy(c, size)
             adv == read_advance(c, size)
         IN  [ctx |-> IF cleanup THEN sstm_clean(adv).ctx ELSE adv,
              res |-> SSTM_OK,
              out |-> out]

\* a slip of write_no_space: the space is counted in the slots of the ring,
\* one more than the capacity.
write_no_space_counts_slots(c, size) ==
    c.cap_size + 1 - c.used_size < size

\* a slip of write_no_space: the stale section is taken for free space.
write_no_space_ignores_stale(c, size) == c.cap_size - c.fresh_size < size

\* a slip of write_no_space: a write that fills the stream is refused.
write_no_space_when_full(c, size) == c.free_size <= size

\* sstm_write: whether the request is refused.
write_no_space(c, size) == c.free_size < size

\* a slip of write_copy: without data, the piece at the start of the ring
\* is not zeroed.
write_copy_zeroes_first(c, data, size) ==
    LET src == SrcBytes(data, size) IN
    IF c.cap_size + 1 - c.tail_idx >= size
    THEN memcpy_in(c.ring_buff, c.tail_idx, src)
    ELSE LET first_copy_size  == c.cap_size + 1 - c.tail_idx
             second_copy_size == size - first_copy_size
             first == memcpy_in(c.ring_buff, c.tail_idx,
                                SubSeq(src, 1, first_copy_size))
         IN  IF data.null
             THEN first
             ELSE memcpy_in(first, 0,
                            SubSeq(src, first_copy_size + 1, size))

\* sstm_write: the ring after the copy, in one piece or in two.
write_copy(c, data, size) ==
    LET src == SrcBytes(data, size) IN
    IF c.cap_size + 1 - c.tail_idx >= size
    THEN memcpy_in(c.ring_buff, c.tail_idx, src)
    ELSE LET first_copy_size  == c.cap_size + 1 - c.tail_idx
             second_copy_size == size - first_copy_size
         IN  memcpy_in(
                 memcpy_in(c.ring_buff, c.tail_idx,
                           SubSeq(src, 1, first_copy_size)),
                 0, SubSeq(src, first_copy_size + 1, size))

\* a slip of write_tail: the tail is not wrapped when the copy ends at the
\* end of the ring.
write_tail_no_wrap(c, size) ==
    IF c.cap_size + 1 - c.tail_idx >= size
    THEN c.tail_idx + size
    ELSE size - (c.cap_size + 1 - c.tail_idx)

\* sstm_write: the tail index after the copy.
write_tail(c, size) ==
    IF c.cap_size + 1 - c.tail_idx >= size
    THEN (c.tail_idx + size) % (c.cap_size + 1)
    ELSE size - (c.cap_size + 1 - c.tail_idx)

\* sstm_write: the cache after the copy.
write_cache(c, size) ==
    [c EXCEPT !.used_size  = U32(c.used_size + size),
              !.fresh_size = U32(c.fresh_size + size),
              !.free_size  = U32(c.free_size - size)]

\* sstm_write; data is [null |-> whether data is NULL, bytes |-> its bytes].
sstm_write(c, data, size) ==
    IF size = 0
    THEN [ctx |-> c, res |-> SSTM_OK]
    ELSE IF write_no_space(c, size)
    THEN [ctx |-> c, res |-> SSTM_ERR_NO_SPACE]
    ELSE [ctx |-> [write_cache(c, size)
                      EXCEPT !.ring_buff = write_copy(c, data, size),
                             !.tail_idx  = write_tail(c, size)],
          res |-> SSTM_OK]

\* sstm_write with the bytes left out: what it does to the sizes and to the
\* tail index (the copy into the ring changes neither).
sstm_write_sizes(c, size) ==
    IF size = 0
    THEN [ctx |-> c, res |-> SSTM_OK]
    ELSE IF write_no_space(c, size)
    THEN [ctx |-> c, res |-> SSTM_ERR_NO_SPACE]
    ELSE [ctx |-> [write_cache(c, size)
                      EXCEPT !.tail_idx = write_tail(c, size)],
          res |-> SSTM_OK]

\* a + b in sstm_offs_t.  The sum of two sstm_offs_t that does not fit is
\* undefined: the build either wraps it to the type's width or keeps it in a wider
\* register.
AddOffs(a, b) ==
    IF SSTM_OFFS_MIN <= a + b /\ a + b <= SSTM_OFFS_MAX
    THEN {a + b}
    ELSE {ToOffs(a + b), a + b}

\* a slip of seek_abs_offs: SSTM_SEEK_END counts from the capacity.
seek_abs_offs_from_cap(c, offset, whence) ==
    CASE whence = SSTM_SEEK_SET -> {offset}
      [] whence = SSTM_SEEK_CUR -> AddOffs(ToOffs(c.seek_offs), offset)
      [] whence = SSTM_SEEK_END -> AddOffs(ToOffs(c.cap_size), offset)

\* sstm_seek: the values abs_offs can take.
seek_abs_offs(c, offset, whence) ==
    CASE whence = SSTM_SEEK_SET -> {offset}
      [] whence = SSTM_SEEK_CUR -> AddOffs(ToOffs(c.seek_offs), offset)
      [] whence = SSTM_SEEK_END -> AddOffs(ToOffs(c.used_size), offset)

\* a slip of seek_bad_offs: the end of the used window is refused.
seek_bad_offs_at_end(c, abs_offs) ==
    \/ abs_offs < 0
    \/ U32(abs_offs) >= c.used_size

\* sstm_seek: whether abs_offs is refused.
seek_bad_offs(c, abs_offs) ==
    \/ abs_offs < 0
    \/ U32(abs_offs) > c.used_size

\* sstm_seek: the context with the seek offset moved to abs_offs.
seek_move(c, abs_offs) ==
    [c EXCEPT !.seek_offs  = U32(abs_offs),
              !.stale_size = U32(abs_offs),
              !.fresh_size = U32(c.used_size - U32(abs_offs))]

\* a slip of seek_to: the offset is moved before it is checked.
seek_to_moves_first(c, abs_offs) ==
    IF seek_bad_offs(c, abs_offs)
    THEN [ctx |-> seek_move(c, abs_offs), res |-> SSTM_ERR_BAD_OFFS]
    ELSE [ctx |-> seek_move(c, abs_offs), res |-> SSTM_OK]

\* sstm_seek, from the check of abs_offs on.
seek_to(c, abs_offs) ==
    IF seek_bad_offs(c, abs_offs)
    THEN [ctx |-> c, res |-> SSTM_ERR_BAD_OFFS]
    ELSE IF U32(abs_offs) = c.seek_offs
    THEN [ctx |-> c, res |-> SSTM_OK]
    ELSE [ctx |-> seek_move(c, abs_offs), res |-> SSTM_OK]

\* sstm_seek: the outcomes of a call.
sstm_seek(c, offset, whence) ==
    {seek_to(c, abs_offs) : abs_offs \in seek_abs_offs(c, offset, whence)}

---------------------------------------------------------------------------
(* The state machine: a stream and the calls made on it. *)

VARIABLES
    ctx,    \* the context structure, struct _sstm_ctx
    call,   \* the call that has just returned: its arguments, its results
            \* and the context it was made on; op is "none" between calls
    win,    \* history: the bytes written and not yet dropped by a clean
    mark,   \* history: an earlier read (the cursor it started at and the
            \* bytes it returned) since which nothing has been reclaimed
    made,   \* the call of sstm_new: its argument and what it left behind
    scn     \* the caller's place in a scripted sequence of calls, and the
            \* bytes it has written

vars == <<ctx, call, win, mark, made, scn>>

Rings == [0..Cap -> Byte]

\* the sizes passed to read and write: every size up to the ring's modulus
\* (the first size no state accepts), and the largest sstm_size_t.
Sizes == 0..(Cap + 1) \cup {SSTM_SIZE_MAX}

\* the offsets passed to seek: every offset that can reach or miss the used
\* window from any position by one, and the extremes of sstm_offs_t.
Offsets == (-(Cap + 1))..(Cap + 1) \cup {SSTM_OFFS_MIN, SSTM_OFFS_MAX}

Whences == {SSTM_SEEK_SET, SSTM_SEEK_CUR, SSTM_SEEK_END}

\* the data a write of size bytes is given: NULL, or a buffer of size bytes
\* (one buffer stands for all of them when the size is the ring's modulus,
\* and NULL alone for the largest size).
WriteData(size) ==
    {[null |-> TRUE, bytes |-> <<>>]}
        \cup {[null |-> FALSE, bytes |-> b] :
                b \in IF size <= Cap THEN [1..size -> Byte]
                      ELSE IF size = Cap + 1 THEN {[k \in 1..size |-> 255]}
                      ELSE {}}

\* the record of a call: data holds the bytes a write stored or a read
\* copied out, pre and prewin the context and the history the call found.
Call(op, size, null, cleanup, offset, whence, res, data, pre, prewin) ==
    [ op |-> op, size |-> size, null |-> null, cleanup |-> cleanup,
      offset |-> offset, whence |-> whence, res |-> res, data |-> data,
      pre |-> pre, prewin |-> prewin ]

NoCall(c, w) == Call("none", 0, FALSE, FALSE, 0, 0, SSTM_OK, <<>>, c, w)

\* no call is under way: the single owner may make the next one.
Idle == call.op = "none"

Drop(s, n) == SubSeq(s, n + 1, Len(s))

\* no read is remembered / the read at cursor at that returned bytes is.
\* stage: 0 from the read on, 1 once a write has stored bytes since, 2 once
\* the read has been made again after that.
NoMark == [valid |-> FALSE, at |-> 0, bytes |-> <<>>, stage |-> 0]

MarkAt(at, bytes) ==
    [valid |-> TRUE, at |-> at, bytes |-> bytes, stage |-> 0]

\* the caller follows no script.
NoScn == [pc |-> 0, a |-> <<>>, b |-> <<>>]

\* sstm_new has not been called yet / has made a stream of capacity cap.
NotMade(conf) ==
    [ conf |-> conf, done |-> FALSE, cap_size |-> 0, alloc_size |-> 0,
      ring_ok |-> FALSE, ctx_ok |-> FALSE, returned |-> FALSE,
      res |-> SSTM_OK, ring_mem |-> "none", ctx_mem |-> "none",
      handle |-> "unset", fault |-> FALSE ]

MadeWith(cap) ==
    [ conf |-> [null |-> FALSE, cap_size |-> cap], done |-> TRUE,
      cap_size |-> cap, alloc_size |-> new_alloc_size(cap),
      ring_ok |-> TRUE, ctx_ok |-> TRUE, returned |-> TRUE,
      res |-> SSTM_OK, ring_mem |-> "live", ctx_mem |-> "live",
      handle |-> "stream", fault |-> FALSE ]

Init ==
    /\ \E ring \in Rings : ctx = sstm_new(Cap, ring)
    /\ call = Call("new", 0, FALSE, FALSE, 0, 0, SSTM_OK, <<>>, ctx, <<>>)
    /\ win = <<>>
    /\ mark = NoMark
    /\ made = MadeWith(Cap)
    /\ scn = NoScn

\* The calls.  With rec the call is recorded for the caller to look at
\* (and Return follows); without, the caller drops the result at once.
CleanCall(rec) ==
    LET r == sstm_clean(ctx) IN
    /\ Idle
    /\ ctx' = r.ctx
    /\ made' = made
    /\ win' = Drop(win, ctx.stale_size)
    /\ call' = IF rec
               THEN Call("clean", 0, FALSE, FALSE, 0, 0, r.res, <<>>,
                         ctx, win)
               ELSE NoCall(ctx', win')

ReadCall(size, dest_null, cleanup) ==
    LET r == sstm_read(ctx, dest_null, size, cleanup)
        cleaned == cleanup /\ size # 0 /\ r.res = SSTM_OK
    IN  /\ Idle
        /\ ctx' = r.ctx
        /\ made' = made
        /\ win' = IF cleaned
                  THEN Drop(win, read_advance(ctx, size).stale_size)
                  ELSE win
        /\ call' = Call("read", size, dest_null, cleanup, 0, 0,
                        r.res, r.out, ctx, win)

WriteCall(size, data, rec) ==
    LET r == sstm_write(ctx, data, size)
        stored == size # 0 /\ r.res = SSTM_OK
    IN  /\ Idle
        /\ ctx' = r.ctx
        /\ made' = made
        /\ win' = IF stored THEN win \o SrcBytes(data, size) ELSE win
        /\ call' = IF rec
                   THEN Call("write", size, data.null, FALSE, 0, 0, r.res,
                             IF stored THEN SrcBytes(data, size) ELSE <<>>,
                             ctx, win)
                   ELSE NoCall(ctx', win')

SeekCall(offset, whence, rec) ==
    \E r \in sstm_seek(ctx, offset, whence) :
        /\ Idle
        /\ ctx' = r.ctx
        /\ made' = made
        /\ win' = win
        /\ call' = IF rec
                   THEN Call("seek", 0, FALSE, FALSE, offset, whence, r.res,
                             <<>>, ctx, win)
                   ELSE NoCall(ctx', win')

Clean ==
    /\ CleanCall(TRUE)
    /\ UNCHANGED <<mark, scn>>

Read ==
    \E size \in Sizes, dest_null \in BOOLEAN, cleanup \in BOOLEAN :
        /\ ReadCall(size, dest_null, cleanup)
        /\ UNCHANGED <<mark, scn>>

Write ==
    \E size \in Sizes :
        \E data \in WriteData(size) :
            /\ WriteCall(size, data, TRUE)
            /\ UNCHANGED <<mark, scn>>

Seek ==
    \E offset \in Offsets, whence \in Whences :
        /\ SeekCall(offset, whence, TRUE)
        /\ UNCHANGED <<mark, scn>>

\* the caller has the result of the call; the stream is as the call left it.
Return ==
    /\ ~Idle
    /\ call' = NoCall(ctx, win)
    /\ UNCHANGED <<ctx, win, mark, made, scn>>

Next == Clean \/ Read \/ Write \/ Seek \/ Return

Spec == Init /\ [][Next]_vars

---------------------------------------------------------------------------
(* The same calls, with one earlier read remembered: any successful read   *)
(* with a destination may become the remembered one, and a clean that      *)
(* drops a stale section forgets it.  Only the reads are recorded.         *)

\* the read about to be made is the remembered one, made again.
Rereads(size) ==
    mark.valid /\ ctx.seek_offs = mark.at /\ size = Len(mark.bytes)

RewClean ==
    /\ CleanCall(FALSE)
    /\ scn' = scn
    /\ mark' = IF ctx.stale_size > 0 THEN NoMark ELSE mark

RewRead ==
    \E size \in Sizes, dest_null \in BOOLEAN, cleanup \in BOOLEAN :
        /\ ReadCall(size, dest_null, cleanup)
        /\ scn' = scn
        /\ LET ok == size # 0 /\ call'.res = SSTM_OK IN
           IF ok /\ cleanup
           THEN mark' = NoMark
           ELSE IF ~ok \/ dest_null
           THEN mark' = mark
           ELSE IF Rereads(size)
           THEN mark' = [mark EXCEPT !.stage = IF @ = 1 THEN 2 ELSE @]
           ELSE mark' \in {mark, MarkAt(ctx.seek_offs, call'.data)}

RewWrite ==
    \E size \in Sizes :
        \E data \in WriteData(size) :
            /\ WriteCall(size, data, FALSE)
            /\ scn' = scn
            /\ mark' = IF mark.valid /\ mark.stage = 0 /\ win' # win
                       THEN [mark EXCEPT !.stage = 1]
                       ELSE mark

RewSeek ==
    \E offset \in Offsets, whence \in Whences :
        /\ SeekCall(offset, whence, FALSE)
        /\ UNCHANGED <<mark, scn>>

NextRewind == RewClean \/ RewRead \/ RewWrite \/ RewSeek \/ Return

SpecRewind == Init /\ [][NextRewind]_vars

---------------------------------------------------------------------------
(* The creation of a stream: one call of sstm_new, on every configuration  *)
(* of interest, with each of its two allocations succeeding or failing.    *)

\* the capacities asked for: below the minimum, around the minimum, around
\* the default, and the largest values of sstm_size_t.
NewCaps ==
    (0..Cap)
        \cup ((SSTM_CAP_SIZE_MIN - 2)..(SSTM_CAP_SIZE_MIN + 9))
        \cup ((SSTM_CAP_SIZE_DEF - 1)..(SSTM_CAP_SIZE_DEF + 8))
        \cup ((SSTM_SIZE_MAX - 16)..SSTM_SIZE_MAX)

NewConfs ==
    {[null |-> TRUE, cap_size |-> 0]}
        \cup {[null |-> FALSE, cap_size |-> c] : c \in NewCaps}

\* the ring of a stream just made: its bytes are indeterminate and no step
\* of this specification looks at them.
NoRing == <<>>

\* the caller's handle points to no stream.
NoCtx == sstm_new(0, NoRing)

InitNew ==
    /\ \E conf \in NewConfs : made = NotMade(conf)
    /\ ctx = NoCtx
    /\ call = NoCall(ctx, <<>>)
    /\ win = <<>>
    /\ mark = NoMark
    /\ scn = NoScn

New ==
    /\ ~made.done
    /\ \E ring_ok, ctx_ok, zero_mapped \in BOOLEAN :
          made' = new_outcome(made.conf, ring_ok, ctx_ok, zero_mapped)
    /\ ctx' = IF made'.handle = "stream"
              THEN sstm_new(made'.cap_size, NoRing)
              ELSE ctx
    /\ call' = IF made'.returned
               THEN Call("new", 0, made.conf.null, FALSE, 0, 0, made'.res,
                         <<>>, ctx, <<>>)
               ELSE call
    /\ UNCHANGED <<win, mark, scn>>

NextNew == New

SpecNew == InitNew /\ [][NextNew]_vars

---------------------------------------------------------------------------
(* Streams of the largest capacities.  The bytes are left out (the ring is *)
(* not modelled, reads are made without a destination): the sizes, the     *)
(* indices and the seek offset are what the calls compute with.  The       *)
(* caller makes at most WideCalls calls.                                   *)

WideCalls == 5

\* the capacities: the minimum, the largest value of sstm_offs_t, the
\* value after it, and the largest whose allocation size does not wrap.
WideCaps ==
    {SSTM_CAP_SIZE_MIN, SSTM_OFFS_MAX, SSTM_OFFS_MAX + 1, SSTM_SIZE_MAX - 8}

\* the sizes asked for on c.
WideSizes(c) ==
    {0, 1, c.cap_size \div 2, c.cap_size, c.free_size, c.fresh_size,
     SSTM_OFFS_MAX, SSTM_OFFS_MAX + 1, SSTM_SIZE_MAX}

\* the offsets asked for on c.
WideOffsets(c) ==
    {SSTM_OFFS_MIN, -1, 0, 1, SSTM_OFFS_MAX}
        \cup {x \in {-c.seek_offs, -c.used_size, c.used_size,
                     c.used_size - c.seek_offs} :
                SSTM_OFFS_MIN <= x /\ x <= SSTM_OFFS_MAX}

InitWide ==
    /\ \E cap \in WideCaps :
          /\ ctx = sstm_new(cap, NoRing)
          /\ made = MadeWith(cap)
    /\ call = Call("new", 0, FALSE, FALSE, 0, 0, SSTM_OK, <<>>, ctx, <<>>)
    /\ win = <<>>
    /\ mark = NoMark
    /\ scn = NoScn

\* one more call is made.
WideCount ==
    /\ scn.pc < WideCalls
    /\ scn' = [scn EXCEPT !.pc = @ + 1]
    /\ UNCHANGED mark

WideClean ==
    /\ CleanCall(TRUE)
    /\ WideCount

WideRead ==
    \E size \in WideSizes(ctx), cleanup \in BOOLEAN :
        /\ ReadCall(size, TRUE, cleanup)
        /\ WideCount

WideWrite ==
    \E size \in WideSizes(ctx) :
        LET r == sstm_write_sizes(ctx, size) IN
        /\ Idle
        /\ ctx' = r.ctx
        /\ call' = Call("write", size, TRUE, FALSE, 0, 0, r.res, <<>>,
                        ctx, win)
        /\ UNCHANGED <<win, made>>
        /\ WideCount

WideSeek ==
    \E offset \in WideOffsets(ctx), whence \in Whences :
        /\ SeekCall(offset, whence, TRUE)
        /\ WideCount

NextWide == WideClean \/ WideRead \/ WideWrite \/ WideSeek \/ Return

SpecWide == InitWide /\ [][NextWide]_vars

---------------------------------------------------------------------------
(* A round trip.  The caller makes any calls, then a write it remembers    *)
(* the bytes of (scn.a), and at once a read of as many bytes.              *)
(* scn.pc: 0 before the write, 1 after it, 2 after the read.               *)

TripClean ==
    /\ scn.pc = 0
    /\ CleanCall(FALSE)
    /\ UNCHANGED <<mark, scn>>

TripSkip ==
    /\ scn.pc = 0
    /\ \E size \in Sizes, dest_null \in BOOLEAN, cleanup \in BOOLEAN :
          ReadCall(size, dest_null, cleanup)
    /\ UNCHANGED <<mark, scn>>

TripFill ==
    /\ scn.pc = 0
    /\ \E size \in Sizes : \E data \in WriteData(size) :
          WriteCall(size, data, FALSE)
    /\ UNCHANGED <<mark, scn>>

TripSeek ==
    /\ scn.pc = 0
    /\ \E offset \in Offsets, whence \in Whences :
          SeekCall(offset, whence, FALSE)
    /\ UNCHANGED <<mark, scn>>

\* the write of the round trip: a write that succeeds.
TripWrite ==
    /\ scn.pc = 0
    /\ \E size \in Sizes : \E data \in WriteData(size) :
          /\ WriteCall(size, data, TRUE)
          /\ call'.res = SSTM_OK
          /\ scn' = [scn EXCEPT !.pc = 1, !.a = SrcBytes(data, size)]
    /\ UNCHANGED mark

\* the read of the round trip: as many bytes as were written, no cleanup.
TripRead ==
    /\ scn.pc = 1
    /\ ReadCall(Len(scn.a), FALSE, FALSE)
    /\ scn' = [scn EXCEPT !.pc = 2]
    /\ UNCHANGED mark

NextTrip ==
    \/ TripClean \/ TripSkip \/ TripFill \/ TripSeek
    \/ TripWrite \/ TripRead \/ Return

SpecTrip == Init /\ [][NextTrip]_vars

---------------------------------------------------------------------------
(* The wraparound scenario.  A stream is made for a requested capacity n;  *)
(* the caller writes n bytes A, tries to write 1 byte more, reads n / 2    *)
(* bytes with cleanup, writes n / 2 bytes B, and reads n bytes.            *)
(* scn.pc counts the calls made; scn.a and scn.b are A and B.              *)

\* the capacities requested.
WrapCaps == {16, SSTM_CAP_SIZE_MIN, SSTM_CAP_SIZE_MIN + 1}

\* buffers of n bytes: every m-th byte 0xFF, or the second half 0xFF.
Patterns(n) ==
    {[i \in 1..n |-> IF i % m = 0 THEN 255 ELSE 0] : m \in 1..3}
        \cup {[i \in 1..n |-> IF 2 * i > n THEN 255 ELSE 0]}

\* the sizes of the scenario.
WrapSize == made.conf.cap_size
WrapHalf == made.conf.cap_size \div 2

InitWrap ==
    /\ \E n \in WrapCaps :
          made = new_outcome([null |-> FALSE, cap_size |-> n],
                             TRUE, TRUE, FALSE)
    /\ \E b \in Byte : ctx = sstm_new(made.cap_size,
                                      [i \in 0..made.cap_size |-> b])
    /\ call = Call("new", 0, FALSE, FALSE, 0, 0, SSTM_OK, <<>>, ctx, <<>>)
    /\ win = <<>>
    /\ mark = NoMark
    /\ scn = NoScn

WrapWriteA ==
    /\ scn.pc = 0
    /\ \E A \in Patterns(WrapSize) :
          /\ WriteCall(WrapSize, [null |-> FALSE, bytes |-> A], TRUE)
          /\ scn' = [scn EXCEPT !.pc = 1, !.a = A]
    /\ UNCHANGED mark

WrapWriteOne ==
    /\ scn.pc = 1
    /\ \E b \in Byte : WriteCall(1, [null |-> FALSE, bytes |-> <<b>>], TRUE)
    /\ scn' = [scn EXCEPT !.pc = 2]
    /\ UNCHANGED mark

WrapReadHalf ==
    /\ scn.pc = 2
    /\ \E dest_null \in BOOLEAN : ReadCall(WrapHalf, dest_null, TRUE)
    /\ scn' = [scn EXCEPT !.pc = 3]
    /\ UNCHANGED mark

WrapWriteB ==
    /\ scn.pc = 3
    /\ \E B \in Patterns(WrapHalf) :
          /\ WriteCall(WrapHalf, [null |-> FALSE, bytes |-> B], TRUE)
          /\ scn' = [scn EXCEPT !.pc = 4, !.b = B]
    /\ UNCHANGED mark

WrapReadAll ==
    /\ scn.pc = 4
    /\ ReadCall(WrapSize, FALSE, FALSE)
    /\ scn' = [scn EXCEPT !.pc = 5]
    /\ UNCHANGED mark

NextWrap ==
    \/ WrapWriteA \/ WrapWriteOne \/ WrapReadHalf \/ WrapWriteB
    \/ WrapReadAll \/ Return

SpecWrap == InitWrap /\ [][NextWrap]_vars

---------------------------------------------------------------------------
(* What the properties are stated with. *)

\* the context the last call was made on.
Pre == call.pre

\* the ring's modulus.
Modulus(c) == c.cap_size + 1

\* the bytes of the used window, from the head on, wrapping at the modulus.
Resident(c) ==
    [k \in 1..c.used_size |-> c.ring_buff[(c.head_idx + k - 1) % Modulus(c)]]

\* the bytes of the fresh section.
FreshBytes(c) == Drop(Resident(c), c.stale_size)

Returned(op) == call.op = op

OkCall(op) == call.op = op /\ call.res = SSTM_OK

\* the fields a call leaves alone.
Same(fields) == \A f \in fields : ctx[f] = Pre[f]

\* the last write copied in two pieces / ended at the last index of the ring.
WriteWasSplit ==
    /\ OkCall("write") /\ call.size > 0
    /\ Modulus(Pre) - Pre.tail_idx < call.size

WriteEndedAtModulus ==
    /\ OkCall("write") /\ call.size > 0
    /\ Pre.tail_idx + call.size = Modulus(Pre)

\* the last read copied in two pieces.
ReadWasSplit ==
    /\ OkCall("read") /\ call.size > 0
    /\ Modulus(Pre) - read_start(Pre) < call.size

---------------------------------------------------------------------------
(* C1: in every reachable state, after successful and failing calls alike, *)
(* used = stale + fresh, free = capacity - used, the seek offset (cursor)  *)
(* equals stale, and 0 <= cursor <= used.                                  *)
CountersConsistent ==
    /\ ctx.used_size = ctx.stale_size + ctx.fresh_size
    /\ ctx.free_size = ctx.cap_size - ctx.used_size
    /\ ctx.seek_offs = ctx.stale_size
    /\ 0 <= ctx.seek_offs /\ ctx.seek_offs <= ctx.used_size

\* a write of the largest size was refused by a stream that holds stale
\* and fresh bytes in a window that wraps.
CountersWitness ==
    /\ Returned("write") /\ call.res = SSTM_ERR_NO_SPACE
    /\ call.size = SSTM_SIZE_MAX
    /\ ctx.stale_size > 0 /\ ctx.fresh_size > 0
    /\ ctx.tail_idx < ctx.head_idx

(* C2: in every reachable state head and tail lie in [0, capacity] and the *)
(* circular distance (tail - head) mod (capacity + 1) equals used; this    *)
(* covers the writes copied in two pieces and those that end exactly at    *)
(* index capacity + 1.                                                     *)
IndicesConsistent ==
    /\ ctx.head_idx \in 0..ctx.cap_size
    /\ ctx.tail_idx \in 0..ctx.cap_size
    /\ (ctx.tail_idx - ctx.head_idx) % Modulus(ctx) = ctx.used_size
    /\ WriteWasSplit =>
          ctx.tail_idx = call.size - (Modulus(Pre) - Pre.tail_idx)
    /\ WriteEndedAtModulus => ctx.tail_idx = 0

\* a write was copied in two pieces, the second of more than one byte.
IndicesWitness ==
    /\ WriteWasSplit
    /\ ctx.tail_idx > 1
    /\ ctx.head_idx > ctx.tail_idx

(* C3: the ring refines the sequence of the bytes written: in every state  *)
(* the used window holds the bytes written and not yet reclaimed, in       *)
(* order (W[R .. R + used)), and every successful read with a destination  *)
(* returns the size bytes of that sequence that follow the cursor the read *)
(* started at (W[R + cursor .. R + cursor + size)), however often head,    *)
(* tail or the read window have wrapped.                                   *)
RefinesWrittenSequence ==
    /\ Resident(ctx) = win
    /\ (OkCall("read") /\ ~call.null /\ call.size > 0) =>
          call.data = SubSeq(call.prewin, Pre.seek_offs + 1,
                             Pre.seek_offs + call.size)

\* a read that started past the head, in a window that wraps, was copied
\* out in two pieces.
RefinesWitness ==
    /\ ReadWasSplit /\ ~call.null
    /\ Pre.seek_offs > 0
    /\ Pre.head_idx > Pre.tail_idx
    /\ \E i, j \in 1..Len(call.data) : call.data[i] # call.data[j]

(* C4: when write returns NoSpace, read returns NoData or seek returns     *)
(* BadOffset, the whole context (head, tail, cursor, used, stale, fresh,   *)
(* free and every byte of the ring) is what it was before the call; a      *)
(* refused read with cleanup reclaims nothing.                             *)
Refused ==
    call.res \in {SSTM_ERR_NO_SPACE, SSTM_ERR_NO_DATA, SSTM_ERR_BAD_OFFS}

RefusedCallChangesNothing ==
    Refused => (ctx = Pre /\ win = call.prewin)

\* a read with cleanup of more than the fresh bytes was refused by a
\* stream that holds a stale section to reclaim.
RefusedWitness ==
    /\ Returned("read") /\ call.res = SSTM_ERR_NO_DATA /\ call.cleanup
    /\ Pre.stale_size > 0 /\ Pre.fresh_size > 0
    /\ call.size <= Pre.used_size

(* C5: write(size) returns NoSpace exactly when size > free; otherwise it  *)
(* returns Ok and, for size >= 1, used and fresh grow by size, free        *)
(* shrinks by size, tail becomes (tail + size) mod (capacity + 1), and     *)
(* head, stale and cursor are unchanged.                                   *)
WriteContract ==
    Returned("write") =>
        /\ (call.res = SSTM_ERR_NO_SPACE) <=> (call.size > Pre.free_size)
        /\ (call.res # SSTM_ERR_NO_SPACE) =>
              /\ call.res = SSTM_OK
              /\ (call.size >= 1) =>
                    /\ ctx.used_size = Pre.used_size + call.size
                    /\ ctx.fresh_size = Pre.fresh_size + call.size
                    /\ ctx.free_size = Pre.free_size - call.size
                    /\ ctx.tail_idx =
                          (Pre.tail_idx + call.size) % Modulus(Pre)
                    /\ Same({"head_idx", "stale_size", "seek_offs"})

\* a write filled the stream exactly, behind a stale section.
WriteWitness ==
    /\ OkCall("write")
    /\ call.size = Pre.free_size /\ call.size >= 2
    /\ Pre.stale_size > 0

(* C6: read(size) without cleanup returns NoData exactly when size >       *)
(* fresh; otherwise it returns Ok, cursor and stale grow by size, fresh    *)
(* shrinks by size, and used, free, head, tail and every byte of the ring  *)
(* are unchanged; the context is the same whether the read was given a     *)
(* destination or NULL.                                                    *)
ReadContract ==
    (Returned("read") /\ ~call.cleanup) =>
        /\ (call.res = SSTM_ERR_NO_DATA) <=> (call.size > Pre.fresh_size)
        /\ (call.res # SSTM_ERR_NO_DATA) =>
              /\ call.res = SSTM_OK
              /\ ctx.seek_offs = Pre.seek_offs + call.size
              /\ ctx.stale_size = Pre.stale_size + call.size
              /\ ctx.fresh_size = Pre.fresh_size - call.size
              /\ Same({"used_size", "free_size", "head_idx", "tail_idx",
                       "ring_buff", "cap_size"})
        /\ LET other == sstm_read(Pre, ~call.null, call.size, FALSE)
           IN  other.ctx = ctx /\ other.res = call.res

\* a read without destination skipped a part of the fresh section.
ReadWitness ==
    /\ OkCall("read") /\ ~call.cleanup /\ call.null
    /\ call.size >= 1 /\ ctx.fresh_size > 0 /\ Pre.stale_size > 0

(* C7: with target = offset (SET), cursor + offset (CUR) or used + offset  *)
(* (END), seek returns BadOffset exactly when target < 0 or target > used; *)
(* otherwise it returns Ok with cursor = stale = target and fresh = used - *)
(* target, and used, free, head, tail and the bytes are unchanged.         *)
SeekTarget ==
    CASE call.whence = SSTM_SEEK_SET -> call.offset
      [] call.whence = SSTM_SEEK_CUR -> Pre.seek_offs + call.offset
      [] call.whence = SSTM_SEEK_END -> Pre.used_size + call.offset

SeekContract ==
    Returned("seek") =>
        /\ (call.res = SSTM_ERR_BAD_OFFS) <=>
              (SeekTarget < 0 \/ SeekTarget > Pre.used_size)
        /\ (call.res # SSTM_ERR_BAD_OFFS) =>
              /\ call.res = SSTM_OK
              /\ ctx.seek_offs = SeekTarget
              /\ ctx.stale_size = SeekTarget
              /\ ctx.fresh_size = Pre.used_size - SeekTarget
              /\ Same({"used_size", "free_size", "head_idx", "tail_idx",
                       "ring_buff", "cap_size"})

\* a seek from the end moved the cursor forward to the very end of a
\* window that is not empty.
SeekWitness ==
    /\ OkCall("seek") /\ call.whence = SSTM_SEEK_END /\ call.offset = 0
    /\ Pre.used_size > 0 /\ Pre.seek_offs < Pre.used_size
    /\ ctx.seek_offs = Pre.used_size

(* C8: with stale = s > 0, clean returns Ok, sets head to (head + s) mod   *)
(* (capacity + 1), reduces used by s, raises free by s, sets stale and     *)
(* cursor to 0 and leaves fresh, tail and the bytes of the fresh section   *)
(* unchanged; with stale = 0 it changes nothing.                           *)
CleanContract ==
    Returned("clean") =>
        /\ call.res = SSTM_OK
        /\ (Pre.stale_size > 0) =>
              /\ ctx.head_idx =
                    (Pre.head_idx + Pre.stale_size) % Modulus(Pre)
              /\ ctx.used_size = Pre.used_size - Pre.stale_size
              /\ ctx.free_size = Pre.free_size + Pre.stale_size
              /\ ctx.stale_size = 0
              /\ ctx.seek_offs = 0
              /\ Same({"fresh_size", "tail_idx"})
              /\ FreshBytes(ctx) = FreshBytes(Pre)
        /\ (Pre.stale_size = 0) => ctx = Pre

\* a clean moved the head across the end of the ring, in front of a fresh
\* section.
CleanWitness ==
    /\ OkCall("clean")
    /\ Pre.stale_size > 0 /\ Pre.fresh_size > 0
    /\ Pre.head_idx + Pre.stale_size > Modulus(Pre)

(* C9: as long as nothing has been reclaimed since, the bytes a read      *)
(* returned are returned again, identically, by a read of the same size    *)
(* made at the cursor the first read started at (after a seek back to it), *)
(* also when writes have stored bytes in between: no step that reclaims    *)
(* nothing changes a byte of the used window.  In particular write K, read *)
(* K, seek(0, SET), read K returns the same K bytes twice.                 *)
RewindReturnsSameBytes ==
    [][ /\ ( /\ Idle /\ Rereads(call'.size)
             /\ call'.op = "read" /\ call'.res = SSTM_OK /\ ~call'.null )
           => call'.data = mark.bytes
        /\ (Len(win') >= Len(win))
           => SubSeq(Resident(ctx'), 1, ctx.used_size) = Resident(ctx)
      ]_vars

\* the remembered read of several bytes, not all alike, has been made again
\* after a write stored bytes behind them, in a window that wraps.
RewindWitness ==
    /\ OkCall("read") /\ ~call.null
    /\ mark.valid /\ mark.stage = 2
    /\ call.data = mark.bytes
    /\ \E i, j \in 1..Len(mark.bytes) : mark.bytes[i] # mark.bytes[j]
    /\ Pre.seek_offs = mark.at
    /\ Pre.tail_idx < Pre.head_idx

(* C10, as stated: after read(N) with cleanup returns Ok, stale = 0 and    *)
(* free is exactly N higher than before the call.                          *)
ReadCleanupFreesSize ==
    (OkCall("read") /\ call.cleanup) =>
        /\ ctx.stale_size = 0
        /\ ctx.free_size = Pre.free_size + call.size

(* C10, as the code has it: after read(N) with cleanup and N >= 1 returns  *)
(* Ok, stale = 0 and free is higher than before the call by N plus the     *)
(* stale size before the call (the whole stale section is reclaimed);      *)
(* read(0) with cleanup returns Ok and reclaims nothing.                   *)
ReadCleanupFreesStale ==
    (OkCall("read") /\ call.cleanup) =>
        /\ (call.size >= 1) =>
              /\ ctx.stale_size = 0
              /\ ctx.free_size = Pre.free_size + Pre.stale_size + call.size
        /\ (call.size = 0) => ctx = Pre

\* a read with cleanup reclaimed bytes read by an earlier call too.
ReadCleanupWitness ==
    /\ OkCall("read") /\ call.cleanup /\ call.size >= 1
    /\ Pre.stale_size > 0
    /\ ctx.free_size > Pre.free_size + call.size

(* C13, as stated: when the allocation of the ring or of the control state *)
(* fails, sstm_new returns SSTM_ERR_NO_MEM, whatever it had allocated is   *)
(* released, the caller's handle is not set, and no field of the missing   *)
(* control state is accessed.                                              *)
NewFailureIsClean ==
    (made.done /\ (~made.ring_ok \/ ~made.ctx_ok)) =>
        /\ made.returned
        /\ made.res = SSTM_ERR_NO_MEM
        /\ made.ring_mem \in {"none", "freed"}
        /\ made.ctx_mem \in {"none", "freed"}
        /\ made.handle = "unset"
        /\ ~made.fault

(* C14: sstm_new without a configuration makes a stream of capacity 1024;  *)
(* with a configured capacity c >= 128, of capacity c; with c < 128, of    *)
(* capacity 1024; and the stream starts empty: used, stale, fresh and the  *)
(* cursor are 0, free is the capacity, head and tail are 0.                *)
NewCapacityAndEmpty ==
    (made.done /\ made.handle = "stream") =>
        /\ made.res = SSTM_OK
        /\ made.conf.null => ctx.cap_size = 1024
        /\ (~made.conf.null /\ made.conf.cap_size >= 128)
              => ctx.cap_size = made.conf.cap_size
        /\ (~made.conf.null /\ made.conf.cap_size < 128)
              => ctx.cap_size = 1024
        /\ ctx.used_size = 0 /\ ctx.stale_size = 0 /\ ctx.fresh_size = 0
        /\ ctx.seek_offs = 0
        /\ ctx.free_size = ctx.cap_size
        /\ ctx.head_idx = 0 /\ ctx.tail_idx = 0

\* a stream was made from a configured capacity just below the minimum.
NewCapacityWitness ==
    /\ made.done /\ made.handle = "stream"
    /\ ~made.conf.null
    /\ made.conf.cap_size = SSTM_CAP_SIZE_MIN - 1
    /\ ctx.cap_size = SSTM_CAP_SIZE_DEF
    /\ ctx.free_size = SSTM_CAP_SIZE_DEF

(* C18, as stated: for every configured capacity c >= 128 of sstm_size_t,  *)
(* the size of the ring's allocation, ((c >> 3) + 1) << 3 in sstm_size_t,  *)
(* is the smallest multiple of 8 that is >= c + 1; in particular it is     *)
(* >= c + 1, and the modulus c + 1 of the indices is not zero.             *)
AllocSizeCoversCapacity ==
    (made.done /\ ~made.conf.null
        /\ made.conf.cap_size >= SSTM_CAP_SIZE_MIN) =>
        /\ made.cap_size = made.conf.cap_size
        /\ made.alloc_size % 8 = 0
        /\ made.alloc_size >= made.cap_size + 1
        /\ made.alloc_size - 8 < made.cap_size + 1
        /\ U32(made.cap_size + 1) # 0

(* C12: in every step in which free increases or used decreases, the call  *)
(* made is a clean or a read with cleanup; free increases exactly when     *)
(* used decreases; a write never increases free; a read without cleanup    *)
(* and a seek change neither free nor used.                                *)
OnlyReclaimFrees ==
    [][ /\ (ctx'.free_size > ctx.free_size
                \/ ctx'.used_size < ctx.used_size)
           => \/ call'.op = "clean"
              \/ call'.op = "read" /\ call'.cleanup
        /\ (ctx'.free_size > ctx.free_size)
              <=> (ctx'.used_size < ctx.used_size)
        /\ (call'.op = "write") => ctx'.free_size <= ctx.free_size
        /\ (call'.op = "seek" \/ (call'.op = "read" /\ ~call'.cleanup))
           => /\ ctx'.free_size = ctx.free_size
              /\ ctx'.used_size = ctx.used_size
      ]_vars

\* a read with cleanup has given space back to the writer of a stream that
\* was full.
OnlyReclaimWitness ==
    /\ OkCall("read") /\ call.cleanup
    /\ Pre.free_size = 0
    /\ ctx.free_size > 0
    /\ ctx.used_size < Pre.used_size
    /\ ctx.fresh_size > 0

(* C16: from every reachable state, a clean followed by a clean leaves the *)
(* same context (head, tail, cursor, counters, ring) and the same result   *)
(* as one clean; the state a clean has just left is not changed by one     *)
(* more; and a clean that found stale = 0 has changed nothing.             *)
CleanIdempotent ==
    /\ sstm_clean(sstm_clean(ctx).ctx) = sstm_clean(ctx)
    /\ Returned("clean") =>
          /\ call.res = SSTM_OK
          /\ sstm_clean(ctx).ctx = ctx
          /\ (Pre.stale_size = 0) => (ctx = Pre /\ win = call.prewin)

\* a clean has dropped a stale section in front of fresh bytes, moving the
\* head.
CleanIdempotentWitness ==
    /\ OkCall("clean")
    /\ Pre.stale_size > 0
    /\ ctx.fresh_size > 0
    /\ ctx.head_idx # Pre.head_idx
    /\ ctx # Pre

\* a buffer of n bytes 0xFF.
Ones(n) == [k \in 1..n |-> 255]

\* the indices of the ring a write of size bytes on c stores at.
WriteSpan(c, size) ==
    {(c.tail_idx + k) % Modulus(c) : k \in 0..(size - 1)}

(* C17: a successful write of size >= 1 without data (NULL) stores size    *)
(* bytes 0x00 at the end of the used window, whether the copy is in one    *)
(* piece or in two, and changes no other byte of the ring; the counters,   *)
(* the cursor, the head and the tail end as they do for a write of size    *)
(* bytes of data; and a read that follows, from any cursor, returns 0x00   *)
(* for each of the positions written.                                      *)
NullWriteStoresZeros ==
    (OkCall("write") /\ call.null /\ call.size > 0) =>
        LET n == call.size
            withData ==
                sstm_write(Pre, [null |-> FALSE, bytes |-> Ones(n)], n)
        IN  /\ \A i \in WriteSpan(Pre, n) : ctx.ring_buff[i] = 0
            /\ \A i \in (0..Cap) \ WriteSpan(Pre, n) :
                  ctx.ring_buff[i] = Pre.ring_buff[i]
            /\ Resident(ctx) = Resident(Pre) \o Zeros(n)
            /\ withData.res = SSTM_OK
            /\ \A f \in {"cap_size", "used_size", "stale_size",
                         "fresh_size", "free_size", "head_idx",
                         "tail_idx", "seek_offs"} :
                  ctx[f] = withData.ctx[f]
            /\ \A s \in 0..ctx.used_size : \A m \in 1..(ctx.used_size - s) :
                  \A sk \in sstm_seek(ctx, s, SSTM_SEEK_SET) :
                      LET rd == sstm_read(sk.ctx, FALSE, m, FALSE) IN
                      /\ sk.res = SSTM_OK
                      /\ rd.res = SSTM_OK
                      /\ \A i \in 1..m :
                            (s + i > Pre.used_size) => rd.out[i] = 0

\* a write without data was copied in two pieces, over bytes that were all
\* 0xFF.
NullWriteWitness ==
    /\ OkCall("write") /\ call.null
    /\ WriteWasSplit
    /\ Pre.tail_idx < Cap
    /\ call.size - (Modulus(Pre) - Pre.tail_idx) >= 1
    /\ \A i \in WriteSpan(Pre, call.size) : Pre.ring_buff[i] = 255
    /\ \A i \in WriteSpan(Pre, call.size) : ctx.ring_buff[i] = 0

\* the stream holds nothing and all of its capacity is free.
Emptied(c) ==
    /\ c.used_size = 0 /\ c.stale_size = 0 /\ c.fresh_size = 0
    /\ c.seek_offs = 0
    /\ c.free_size = c.cap_size
    /\ c.head_idx = c.tail_idx

\* the sizes a write is tried with on the emptied stream c.
ProbeSizes(c) == {s \in WideSizes(c) : s <= c.cap_size}

\* seek(0, SSTM_SEEK_END) and then clean, on c, succeed and leave the
\* stream empty, and every write of a size up to the capacity then succeeds.
Recovers(c) ==
    \A sk \in sstm_seek(c, 0, SSTM_SEEK_END) :
        LET cl == sstm_clean(sk.ctx) IN
        /\ sk.res = SSTM_OK
        /\ cl.res = SSTM_OK
        /\ Emptied(cl.ctx)
        /\ \A size \in ProbeSizes(cl.ctx) :
              LET wr == sstm_write_sizes(cl.ctx, size) IN
              /\ wr.res = SSTM_OK
              /\ wr.ctx.used_size = size
              /\ wr.ctx.free_size = c.cap_size - size

SeekAgreesWithMath ==
    (Returned("seek") /\ Pre.cap_size <= SSTM_OFFS_MAX) =>
        LET base == CASE call.whence = SSTM_SEEK_SET -> 0
                      [] call.whence = SSTM_SEEK_CUR -> Pre.seek_offs
                      [] call.whence = SSTM_SEEK_END -> Pre.used_size
            target  == base + call.offset
            inside  == 0 <= target /\ target <= Pre.used_size
        IN  /\ call.res = IF inside THEN SSTM_OK ELSE SSTM_ERR_BAD_OFFS
            /\ ~inside => ctx = Pre
            /\ inside =>
                  /\ ctx.seek_offs = target
                  /\ ctx.stale_size = target
                  /\ ctx.fresh_size = Pre.used_size - target
                  /\ Same({"cap_size", "used_size", "free_size",
                           "head_idx", "tail_idx", "ring_buff"})
            /\ seek_to(Pre, ToOffs(target)) = [ctx |-> ctx, res |-> call.res]

\* a relative seek by 1 from the cursor 2^31 - 1, at the end of a full
\* stream: the sum does not fit sstm_offs_t, and the seek was refused.
SeekOverflowWitness ==
    /\ Returned("seek") /\ call.whence = SSTM_SEEK_CUR
    /\ Pre.cap_size = SSTM_OFFS_MAX
    /\ Pre.seek_offs = SSTM_OFFS_MAX
    /\ call.offset >= 1
    /\ call.res = SSTM_ERR_BAD_OFFS

\* the read of a round trip has returned.
TripDone == scn.pc = 2 /\ Returned("read")

(* C11, as stated: a successful write(bytes) followed by read(len(bytes))  *)
(* returns exactly bytes, and afterward stale = len(bytes) and fresh = 0.  *)
RoundTrip ==
    TripDone =>
        /\ call.res = SSTM_OK
        /\ call.data = scn.a
        /\ ctx.stale_size = Len(scn.a)
        /\ ctx.fresh_size = 0

(* C11, as the code has it: a successful write(bytes) followed by          *)
(* read(len(bytes)) returns Ok; when the stream held no fresh byte before  *)
(* the write, the read returns exactly bytes and afterward fresh = 0 and   *)
(* stale is len(bytes) more than before; when the stream held nothing      *)
(* (used = 0) before the write, afterward stale = len(bytes).  With fresh  *)
(* bytes before the write the read returns the oldest of them first and    *)
(* fresh stays what it was before the write.                               *)
RoundTripNothingUnread ==
    TripDone =>
        LET len == Len(scn.a)
            fresh_before == Pre.fresh_size - len
            used_before  == Pre.used_size - len
        IN  /\ call.res = SSTM_OK
            /\ call.size = len
            /\ ctx.fresh_size = fresh_before
            /\ ctx.stale_size = Pre.stale_size + len
            /\ (fresh_before = 0) =>
                  /\ call.data = scn.a
                  /\ ctx.fresh_size = 0
            /\ (used_before = 0) => ctx.stale_size = len
            /\ call.data = SubSeq(FreshBytes(Pre), 1, len)

\* a round trip of several bytes, not all alike, on a stream that held
\* stale bytes and no fresh ones, with the read copying in two pieces.
RoundTripWitness ==
    /\ TripDone /\ call.res = SSTM_OK
    /\ Len(scn.a) >= 2
    /\ \E i, j \in 1..Len(scn.a) : scn.a[i] # scn.a[j]
    /\ Pre.fresh_size = Len(scn.a)
    /\ Pre.stale_size > 0
    /\ ReadWasSplit
    /\ call.data = scn.a

\* the call numbered pc of the wraparound scenario has returned.
WrapAfter(pc, op) == scn.pc = pc /\ Returned(op)

\* what the scenario expects of its calls.
WrapExpected ==
    /\ WrapAfter(1, "write") => call.res = SSTM_OK
    /\ WrapAfter(2, "write") => call.res = SSTM_ERR_NO_SPACE
    /\ WrapAfter(3, "read") => call.res = SSTM_OK
    /\ WrapAfter(4, "write") => (call.res = SSTM_OK /\ WriteWasSplit)
    /\ WrapAfter(5, "read") =>
          /\ call.res = SSTM_OK
          /\ call.data = SubSeq(scn.a, WrapHalf + 1, WrapSize) \o scn.b

(* C15, as stated: with capacity 16, after writing 16 bytes A a write of 1 *)
(* byte fails with NoSpace; after read(8) with cleanup a write of 8 bytes  *)
(* B succeeds, copied in two pieces across the end of the ring; and the    *)
(* read(16) that follows returns A[8:16] followed by B.                    *)
WrapAtSixteen == (made.conf.cap_size = 16) => WrapExpected

(* C15, as the code has it: with a capacity n >= 128 (one that sstm_new    *)
(* takes as it is), after writing n bytes A a write of 1 byte fails with   *)
(* NoSpace; after read(n / 2) with cleanup a write of n / 2 bytes B        *)
(* succeeds, copied in two pieces across the end of the ring; and the      *)
(* read(n) that follows, itself copied in two pieces, returns the bytes of *)
(* A from n / 2 on followed by B.                                          *)
WrapAtAccepted ==
    (made.conf.cap_size >= SSTM_CAP_SIZE_MIN) =>
        /\ ctx.cap_size = made.conf.cap_size
        /\ WrapExpected
        /\ WrapAfter(5, "read") => ReadWasSplit

\* the scenario has run to its end on a stream of capacity 128, with B
\* other than the second half of A, and the last read returned both.
WrapWitness ==
    /\ WrapAfter(5, "read") /\ call.res = SSTM_OK
    /\ made.conf.cap_size = SSTM_CAP_SIZE_MIN
    /\ ctx.cap_size = SSTM_CAP_SIZE_MIN
    /\ ReadWasSplit
    /\ scn.b # SubSeq(scn.a, WrapHalf + 1, WrapSize)
    /\ \E i, j \in 1..Len(scn.b) : scn.b[i] # scn.b[j]
    /\ call.data = SubSeq(scn.a, WrapHalf + 1, WrapSize) \o scn.b

====
